---------------------------- MODULE Spec2Model ----------------------------
(***************************************************************************)
(* A model of tf_from_scratch.ipynb: the Transformer encoder modules       *)
(* (InputEmbedding, PositionalEncoding, LayerNormalization,                *)
(* PositionWiseFeedForward, MultiHeadAttentionBlock, ResidualConnection,   *)
(* EncoderBlock, Encoder), their constructors and their forward calls.     *)
(*                                                                         *)
(* Tensors are nested sequences of integers.  A float32 value v is held    *)
(* as the integer round(v * Scale) (three decimal digits); a product of    *)
(* two values is rescaled by Scale.  The attention scores, which hold the  *)
(* literal -1e9, are pairs <<units, thousandths>>.                         *)
(***************************************************************************)
EXTENDS Integers, Sequences, FiniteSets, TLC

VARIABLES
    emb,    \* the InputEmbedding instance, or None
    pos,    \* the PositionalEncoding instance, or None
    ln,     \* the LayerNormalization instance, or None
    ff,     \* the PositionWiseFeedForward instance, or None
    mha,    \* the MultiHeadAttentionBlock instance, or None
    rc,     \* the ResidualConnection instance, or None
    layers, \* the list of EncoderBlocks built so far (the caller's ModuleList)
    enc,    \* the Encoder instance, or None
    call    \* the last constructor or forward call: its arguments and outcome

vars == <<emb, pos, ln, ff, mha, rc, layers, enc, call>>

-----------------------------------------------------------------------------
(* Bounds of the model.                                                    *)

MaxDModel == 4      \* widths d_model range over 1..MaxDModel
MaxSeqLen == 3      \* sequence lengths range over 1..MaxSeqLen
MaxBatch == 1       \* batch sizes range over 1..MaxBatch
MaxHeads == 3       \* head counts range over 0..MaxHeads
MaxVal == 2         \* input entries range over 0..MaxVal
MaxSeed == 3        \* sample tensors and initial weights are numbered 0..MaxSeed

-----------------------------------------------------------------------------
(* Fixed-point arithmetic standing for the framework's float32.            *)

Scale == 10 * 10 * 10

Abs(a) == IF a < 0 THEN -a ELSE a

Max2(a, b) == IF a >= b THEN a ELSE b

Min2(a, b) == IF a <= b THEN a ELSE b

\* a / b rounded to the nearest integer, b > 0
RoundDiv(a, b) == (2 * a + b) \div (2 * b)

\* the product of two fixed-point values
Mul(a, b) == RoundDiv(a * b, Scale)

RECURSIVE ISqrt(_)
\* floor of the square root of v >= 0
ISqrt(v) ==
    IF v < 2 THEN v
    ELSE LET s == 2 * ISqrt(v \div 4)
         IN  IF (s + 1) * (s + 1) <= v THEN s + 1 ELSE s

\* math.sqrt(n) of an integer n, in fixed point
SqrtInt(n) == ISqrt(n * Scale * Scale)

RECURSIVE MulDivRec(_, _, _)
\* <<floor(a * m / d), (a * m) mod d>> for a >= 0, m >= 0, d > 0, by binary
\* long multiplication, so that no intermediate value exceeds 2 * d + a
MulDivRec(a, m, d) ==
    IF m = 0 THEN <<0, 0>>
    ELSE LET half == MulDivRec(a, m \div 2, d)
             q2 == 2 * half[1] + (2 * half[2]) \div d
             r2 == (2 * half[2]) % d
         IN  IF m % 2 = 0 THEN <<q2, r2>>
             ELSE <<q2 + (a \div d) + (r2 + (a % d)) \div d, (r2 + (a % d)) % d>>

\* a * m / d rounded to the nearest integer (half away from zero), d > 0
MulDiv(a, m, d) ==
    LET qr == MulDivRec(Abs(a), m, d)
        q == IF 2 * qr[2] >= d THEN qr[1] + 1 ELSE qr[1]
    IN  IF a < 0 THEN -q ELSE q

\* e^(-n) for n = 0..13 in millionths; e^(-14) is below one millionth
ExpTable == <<1000000, 367879, 135335, 49787, 18316, 6738, 2479, 912,
              335, 123, 45, 17, 6, 2>>

RECURSIVE ExpFracSum(_, _, _)
\* the Taylor series of e^(-f/Scale), 0 <= f < Scale, in millionths:
\* term is the k-th term's magnitude
ExpFracSum(f, k, term) ==
    IF term = 0 \/ k > 12 THEN 0
    ELSE (IF k % 2 = 0 THEN term ELSE -term)
         + ExpFracSum(f, k + 1, (term * f) \div (Scale * (k + 1)))

\* e^(-d/Scale) in millionths, for a fixed-point d >= 0
ExpNeg(d) ==
    LET n == d \div Scale
        f == d % Scale
    IN  IF n >= Len(ExpTable) THEN 0
        ELSE RoundDiv(ExpTable[n + 1] * RoundDiv(ExpFracSum(f, 0, Scale * Scale), Scale),
                      Scale)

RECURSIVE TrigSum(_, _, _)
\* the alternating Taylor series term + ... of sin or cos at x (fixed point):
\* term is x^k / k! in fixed point, the next one is term * x^2 / ((k+1)(k+2))
TrigSum(x, k, term) ==
    IF term = 0 \/ k > 40 THEN 0
    ELSE term - TrigSum(x, k + 2, RoundDiv(Mul(Mul(term, x), x), (k + 1) * (k + 2)))

\* torch.sin and torch.cos of a fixed-point angle x >= 0
Sin(x) == TrigSum(x, 1, x)

Cos(x) == TrigSum(x, 0, Scale)


\* the float NaN: an integer no computed value takes
NaN == -(2 ^ 30)

\* a + b of two floats
Add(a, b) == IF a = NaN \/ b = NaN THEN NaN ELSE a + b

\* torch.exp of a fixed-point x <= 0
Exp(x) == RoundDiv(ExpNeg(-x), Scale)

-----------------------------------------------------------------------------
(* Tensors: a 3-D tensor (batch, seq_len, d_model) is a sequence of         *)
(* sequences of rows.                                                      *)

RECURSIVE Tensor(_, _)
\* the framework computes a tensor's elements when it creates the tensor: the
\* rank-deep sequence t with every element evaluated
Tensor(rank, t) ==
    IF rank = 0 THEN t ELSE SubSeq([i \in 1..Len(t) |-> Tensor(rank - 1, t[i])], 1, Len(t))

RECURSIVE SumSeq(_)
SumSeq(s) == IF s = <<>> THEN 0 ELSE Head(s) + SumSeq(Tail(s))

\* torch.zeros(rows, cols)
Zeros(rows, cols) == [r \in 1..rows |-> [c \in 1..cols |-> 0]]

\* x.shape of a 3-D tensor with at least one position
Shape(x) == <<Len(x), Len(x[1]), Len(x[1][1])>>

\* two sizes of one axis that broadcast together
Compatible(m, n) == m = n \/ m = 1 \/ n = 1

\* the size of the broadcast axis; a size-1 axis takes the other's size
BroadcastSize(m, n) == IF m = 1 THEN n ELSE m

\* a + b of two 3-D tensors under the framework's broadcasting
BroadcastAdd(a, b) ==
    LET sa == Shape(a)
        sb == Shape(b)
    IN  Tensor(3, [i \in 1..BroadcastSize(sa[1], sb[1]) |->
          [j \in 1..BroadcastSize(sa[2], sb[2]) |->
            [k \in 1..BroadcastSize(sa[3], sb[3]) |->
                Add(a[IF sa[1] = 1 THEN 1 ELSE i][IF sa[2] = 1 THEN 1 ELSE j][IF sa[3] = 1 THEN 1 ELSE k],
                    b[IF sb[1] = 1 THEN 1 ELSE i][IF sb[2] = 1 THEN 1 ELSE j][IF sb[3] = 1 THEN 1 ELSE k])]]])

Broadcastable(a, b) ==
    \A ax \in 1..3 : Compatible(Shape(a)[ax], Shape(b)[ax])

\* the dropout probabilities the model constructs modules with, in percent
Rates == {0, 50}

\* whether element t is kept by the keep-pattern numbered seed
Keep(seed, t) == (seed \div (2 ^ (t % 2))) % 2 = 1

\* the keep-patterns nn.Dropout can draw: with p = 0 every element is kept
KeepSeeds(p) == IF p = 0 THEN {MaxSeed} ELSE 0..MaxSeed

\* nn.Dropout(p) in training mode on a 3-D tensor: a dropped element becomes 0,
\* a kept one is scaled by 1/(1-p)
Dropout(x, p, seed) ==
    LET s == Shape(x)
    IN  Tensor(3, [i \in 1..s[1] |-> [j \in 1..s[2] |-> [k \in 1..s[3] |->
            IF x[i][j][k] = NaN THEN NaN
            ELSE IF p = 0 \/ Keep(seed, ((i - 1) * s[2] + (j - 1)) * s[3] + (k - 1))
            THEN RoundDiv(x[i][j][k] * 100, 100 - p)
            ELSE 0]]])

\* entry t of the sample tensor numbered seed, in 0..MaxVal
SampleVal(seed, t) == (seed * (t + 1) + seed \div 2) % (MaxVal + 1)

\* the sample input of shape (b, s, d) numbered seed
Sample(seed, b, s, d) ==
    Tensor(3, [i \in 1..b |-> [j \in 1..s |-> [k \in 1..d |->
        Scale * SampleVal(seed, ((i - 1) * s + (j - 1)) * d + (k - 1))]]])

\* the inputs forward calls are made with: every shape within the bounds
Inputs ==
    {Sample(seed, b, s, d) :
        seed \in 0..MaxSeed, b \in 1..MaxBatch, s \in 1..MaxSeqLen, d \in 1..MaxDModel}

-----------------------------------------------------------------------------
(* Instances and calls.                                                    *)

None == [cls |-> "None"]

\* the record of a call: what was called with what, the exception it raised
\* ("none" when it returned), the value it returned and the steps it took
Call(op, args, err, ret, trace) ==
    [op |-> op, args |-> args, err |-> err, ret |-> ret, trace |-> trace]

NoCall == Call("none", [x |-> <<>>], "none", <<>>, <<>>)

\* no call is in progress: the caller is free to make the next one
Idle == call = NoCall

\* the caller is done with the last call's outcome (the returned tensor is
\* printed or dropped, the exception reported) and moves on
Discard ==
    /\ call # NoCall
    /\ call' = NoCall
    /\ UNCHANGED <<emb, pos, ln, ff, mha, rc, layers, enc>>

-----------------------------------------------------------------------------
(* PositionalEncoding                                                      *)

\* math.log(10000.0)
LogTenThousand == 9210

\* torch.arange(0, seq_len).unsqueeze(1): the positions 0, 1, ...
Position(seq_len) == [p \in 1..seq_len |-> (p - 1) * Scale]

\* torch.arange(0, d_model, 2): the even numbers 0, 2, ... below d_model
Vector(d_model) == [k \in 1..((d_model + 1) \div 2) |-> 2 * (k - 1) * Scale]

\* torch.exp(vector * (-math.log(10000.0) / d_model))
DenominatorHarvard(d_model) ==
    LET vector == Vector(d_model)
    IN  [k \in 1..Len(vector) |->
            Exp(Mul(vector[k], RoundDiv(-LogTenThousand, d_model)))]

\* position * denominator_harvard: (seq_len, 1) * (n) -> (seq_len, n)
Angles(seq_len, d_model) ==
    LET position == Position(seq_len)
        den == DenominatorHarvard(d_model)
    IN  Tensor(2, [p \in 1..seq_len |-> [k \in 1..Len(den) |-> Mul(position[p], den[k])]])

\* the number of columns of the slice pe[:, start::2] (start is 0 or 1)
SliceCols(d_model, start) == (d_model - start + 1) \div 2

\* whether pe[:, start::2] = vals is a legal assignment: vals broadcasts to
\* the slice when its column count is the slice's, or 1
SliceAssignable(pe, start, vals) ==
    LET cols == SliceCols(Len(pe[1]), start)
    IN  Len(vals[1]) = cols \/ Len(vals[1]) = 1

\* pe after pe[:, start::2] = vals (columns are numbered from 0 in the code,
\* from 1 here: code column c is column c + 1)
SliceAssign(pe, start, vals) ==
    Tensor(2, [p \in 1..Len(pe) |-> [c \in 1..Len(pe[1]) |->
        IF (c - 1) >= start /\ (c - 1 - start) % 2 = 0
        THEN vals[p][IF Len(vals[1]) = 1 THEN 1 ELSE ((c - 1 - start) \div 2) + 1]
        ELSE pe[p][c]]])

\* torch.sin and torch.cos, elementwise on a table of angles
Sines(t) == Tensor(2, [p \in 1..Len(t) |-> [k \in 1..Len(t[1]) |-> Sin(t[p][k])]])

Cosines(t) == Tensor(2, [p \in 1..Len(t) |-> [k \in 1..Len(t[1]) |-> Cos(t[p][k])]])

\* a table with the two functions exchanged: cos in the even columns, sin in
\* the odd ones
PositionalEncoding_swapped(d_model, seq_len, dropout) ==
    [err |-> "none",
     self |-> [cls |-> "PositionalEncoding", d_model |-> d_model,
               seq_len |-> seq_len, dropout |-> dropout,
               pe |-> <<SliceAssign(SliceAssign(Zeros(seq_len, d_model), 0,
                                                Cosines(Angles(seq_len, d_model))),
                                    1, Sines(Angles(seq_len, d_model)))>>]]

\* PositionalEncoding.__init__: the instance, or the exception raised
PositionalEncoding_new(d_model, seq_len, dropout) ==
    LET zeros == Zeros(seq_len, d_model)
        angles == Angles(seq_len, d_model)
        sines == Sines(angles)
        cosines == Cosines(angles)
        even == SliceAssign(zeros, 0, sines)
    IN  IF ~SliceAssignable(even, 1, cosines)
        THEN [err |-> "RuntimeError", self |-> None]
        ELSE [err |-> "none",
              self |-> [cls |-> "PositionalEncoding", d_model |-> d_model,
                        seq_len |-> seq_len, dropout |-> dropout,
                        pe |-> <<SliceAssign(even, 1, cosines)>>]]

PositionalEncoding_init(d_model, seq_len, dropout) ==
    /\ Idle
    /\ \E r \in {PositionalEncoding_new(d_model, seq_len, dropout)} :
        /\ pos' = IF r.err = "none" THEN r.self ELSE pos
        /\ call' = Call("PositionalEncoding.__init__",
                        [d_model |-> d_model, seq_len |-> seq_len, dropout |-> dropout],
                        r.err, <<>>, <<>>)
        /\ UNCHANGED <<emb, ln, ff, mha, rc, layers, enc>>

\* self.pe[:, :n]: the first n positions of the table (all of them if n is more)
PeSlice(pe, n) == [b \in 1..Len(pe) |-> SubSeq(pe[b], 1, Min2(n, Len(pe[b])))]

\* a forward that accumulates into the table in place: self.pe[:, :n] += x[0]
PositionalEncoding_forward_inplace(x, seed) ==
    /\ Idle
    /\ pos.cls = "PositionalEncoding"
    /\ seed \in KeepSeeds(pos.dropout)
    /\ IF Broadcastable(x, PeSlice(pos.pe, Shape(x)[2]))
       THEN /\ pos' = [pos EXCEPT !.pe =
                        <<[p \in 1..Len(pos.pe[1]) |->
                             IF p <= Len(x[1]) /\ Len(x[1][1]) = Len(pos.pe[1][1])
                             THEN [c \in 1..Len(pos.pe[1][p]) |->
                                      pos.pe[1][p][c] + x[1][p][c]]
                             ELSE pos.pe[1][p]]>>]
            /\ call' = Call("PositionalEncoding.forward", [x |-> x], "none",
                            Dropout(BroadcastAdd(x, PeSlice(pos.pe, Shape(x)[2])),
                                    pos.dropout, seed), <<>>)
       ELSE /\ pos' = pos
            /\ call' = Call("PositionalEncoding.forward", [x |-> x], "RuntimeError",
                            <<>>, <<>>)
    /\ UNCHANGED <<emb, ln, ff, mha, rc, layers, enc>>

\* PositionalEncoding.forward: x + self.pe[:, :x.size(1)], then dropout
PositionalEncoding_forward(x, seed) ==
    /\ Idle
    /\ pos.cls = "PositionalEncoding"
    /\ seed \in KeepSeeds(pos.dropout)
    /\ LET slice == PeSlice(pos.pe, Shape(x)[2])
       IN  call' = IF Broadcastable(x, slice)
                   THEN Call("PositionalEncoding.forward", [x |-> x], "none",
                             Dropout(BroadcastAdd(x, slice), pos.dropout, seed), <<>>)
                   ELSE Call("PositionalEncoding.forward", [x |-> x], "RuntimeError",
                             <<>>, <<>>)
    /\ UNCHANGED <<emb, pos, ln, ff, mha, rc, layers, enc>>

-----------------------------------------------------------------------------
(* LayerNormalization                                                      *)

\* eps: float = 1e-6, in units of 1/Scale^2
Eps == 1

\* LayerNormalization.__init__
LayerNormalization_new(eps) ==
    [cls |-> "LayerNormalization", eps |-> eps, alpha |-> Scale, bias |-> 0]

LayerNormalization_init ==
    /\ Idle
    /\ ln' = LayerNormalization_new(Eps)
    /\ call' = Call("LayerNormalization.__init__", [eps |-> Eps], "none", <<>>, <<>>)
    /\ UNCHANGED <<emb, pos, ff, mha, rc, layers, enc>>

\* x.mean(dim=-1) of one row
Mean(row) == RoundDiv(SumSeq(row), Len(row))

\* the square root of v >= 0 rounded to the nearest integer
SqrtRound(v) ==
    LET s == ISqrt(v)
    IN  IF v - s * s > s THEN s + 1 ELSE s

\* x.std(dim=-1) of one row: the unbiased estimate, which divides the squared
\* deviations by n - 1; a row of one element has none and gives NaN
Std(row) ==
    LET n == Len(row)
        total == SumSeq(row)
        squares == SumSeq([i \in 1..n |-> (n * row[i] - total) * (n * row[i] - total)])
    IN  IF n = 1 THEN NaN
        ELSE SqrtRound(RoundDiv(squares, n * n * (n - 1)))

\* the textbook normalization, which divides by std + eps
NormalizedByStd(self, row, mean, std) ==
    [i \in 1..Len(row) |->
        IF std = NaN \/ row[i] = NaN THEN NaN
        ELSE Mul(self.alpha, MulDiv(row[i] - mean, Scale, std + self.eps)) + self.bias]

\* alpha * ((x - mean) / (std**2 + eps)) + bias on one row, given the row's
\* mean and std
Normalized(self, row, mean, std) ==
    [i \in 1..Len(row) |->
        IF std = NaN \/ row[i] = NaN THEN NaN
        ELSE Mul(self.alpha, MulDiv(row[i] - mean, Scale * Scale, std * std + self.eps))
             + self.bias]

\* mean and std are taken over the last axis, row by row
NormalizeRow(self, row) == Normalized(self, row, Mean(row), Std(row))

\* LayerNormalization.forward: every last-axis row of x normalized
LayerNormalization_call(self, x) ==
    Tensor(3, [b \in 1..Len(x) |-> [s \in 1..Len(x[b]) |-> NormalizeRow(self, x[b][s])]])

LayerNormalization_forward(x) ==
    /\ Idle
    /\ ln.cls = "LayerNormalization"
    /\ call' = Call("LayerNormalization.forward", [x |-> x], "none",
                    LayerNormalization_call(ln, x), <<>>)
    /\ UNCHANGED <<emb, pos, ln, ff, mha, rc, layers, enc>>

\* the row of the hand-computed example: x = [1, 2, 3, 4]
WorkedExample == <<<<<<1 * Scale, 2 * Scale, 3 * Scale, 4 * Scale>>>>>>

\* the single-row inputs: every row over 0..MaxVal of each width
RowInputs ==
    UNION {{<<<<row>>>> : row \in [1..d -> {v * Scale : v \in 0..MaxVal}]} :
            d \in 1..MaxDModel}

-----------------------------------------------------------------------------
(* nn.Linear and nn.Embedding                                              *)

\* entry (j, i) of the initial weight matrix numbered seed: -0.5, 0 or 0.5
WeightVal(seed, j, i) == (((seed + 2 * j + i) % 3) - 1) * (Scale \div 2)

\* the initial weight of nn.Linear(in_features, out_features): one row per output
Weight(seed, out_features, in_features) ==
    [j \in 1..out_features |-> [i \in 1..in_features |-> WeightVal(seed, j, i)]]

\* the initial bias of nn.Linear
Bias(seed, out_features) == [j \in 1..out_features |-> WeightVal(seed + 1, j, 0)]

\* nn.Linear(in_features, out_features, bias)
Linear_new(seed, in_features, out_features, bias) ==
    [weight |-> Weight(seed, out_features, in_features),
     bias |-> IF bias THEN Bias(seed, out_features)
              ELSE [j \in 1..out_features |-> 0]]

\* whether x's last axis is the layer's in_features
LinearAccepts(lin, x) == Shape(x)[3] = Len(lin.weight[1])

\* the dot product of two rows; NaN if the first holds a NaN
Dot(row, w) ==
    IF \E i \in 1..Len(row) : row[i] = NaN THEN NaN
    ELSE SumSeq([i \in 1..Len(row) |-> Mul(row[i], w[i])])

\* nn.Linear.forward: x @ weight^T + bias on every position
Linear(lin, x) ==
    Tensor(3, [b \in 1..Len(x) |-> [s \in 1..Len(x[b]) |-> [j \in 1..Len(lin.weight) |->
        Add(Dot(x[b][s], lin.weight[j]), lin.bias[j])]]])

-----------------------------------------------------------------------------
(* InputEmbedding                                                          *)

\* InputEmbedding.__init__
InputEmbedding_new(d_model, vocab_size, seed) ==
    [cls |-> "InputEmbedding", d_model |-> d_model, vocab_size |-> vocab_size,
     embedding |-> Weight(seed, vocab_size, d_model)]

InputEmbedding_init(d_model, vocab_size, seed) ==
    /\ Idle
    /\ emb' = InputEmbedding_new(d_model, vocab_size, seed)
    /\ call' = Call("InputEmbedding.__init__",
                    [d_model |-> d_model, vocab_size |-> vocab_size], "none", <<>>, <<>>)
    /\ UNCHANGED <<pos, ln, ff, mha, rc, layers, enc>>

\* the token ids of the sample numbered seed: shape (b, s), ids 0..MaxVal
SampleIds(seed, b, s) ==
    [i \in 1..b |-> [j \in 1..s |-> SampleVal(seed, (i - 1) * s + (j - 1))]]

IdInputs ==
    {SampleIds(seed, b, s) : seed \in 0..MaxSeed, b \in 1..MaxBatch, s \in 1..MaxSeqLen}

\* InputEmbedding.forward: self.embedding(x) * math.sqrt(self.d_model); an id
\* outside the table is the lookup's IndexError
InputEmbedding_call(self, x) ==
    IF \E b \in 1..Len(x) : \E s \in 1..Len(x[b]) : x[b][s] >= self.vocab_size
    THEN [err |-> "IndexError", val |-> <<>>]
    ELSE [err |-> "none",
          val |-> [b \in 1..Len(x) |-> [s \in 1..Len(x[b]) |-> [k \in 1..self.d_model |->
                      Mul(self.embedding[x[b][s] + 1][k], SqrtInt(self.d_model))]]]]

InputEmbedding_forward(x) ==
    /\ Idle
    /\ emb.cls = "InputEmbedding"
    /\ \E r \in {InputEmbedding_call(emb, x)} :
           call' = Call("InputEmbedding.forward", [x |-> x], r.err, r.val, <<>>)
    /\ UNCHANGED <<emb, pos, ln, ff, mha, rc, layers, enc>>

-----------------------------------------------------------------------------
(* PositionWiseFeedForward                                                 *)

\* PositionWiseFeedForward.__init__
PositionWiseFeedForward_new(d_model, d_ff, dropout, seed) ==
    [cls |-> "PositionWiseFeedForward",
     linear1 |-> Linear_new(seed, d_model, d_ff, TRUE),
     linear2 |-> Linear_new(seed + 1, d_ff, d_model, TRUE),
     dropout |-> dropout]

PositionWiseFeedForward_init(d_model, d_ff, dropout, seed) ==
    /\ Idle
    /\ ff' = PositionWiseFeedForward_new(d_model, d_ff, dropout, seed)
    /\ call' = Call("PositionWiseFeedForward.__init__",
                    [d_model |-> d_model, d_ff |-> d_ff, dropout |-> dropout],
                    "none", <<>>, <<>>)
    /\ UNCHANGED <<emb, pos, ln, mha, rc, layers, enc>>

\* nn.ReLU on a 3-D tensor
Relu(x) ==
    Tensor(3, [b \in 1..Len(x) |-> [s \in 1..Len(x[b]) |-> [k \in 1..Len(x[b][s]) |->
        IF x[b][s][k] = NaN THEN NaN ELSE Max2(x[b][s][k], 0)]]])

\* PositionWiseFeedForward.forward: linear2(dropout(relu(linear1(x))))
PositionWiseFeedForward_call(self, x, seed) ==
    IF ~LinearAccepts(self.linear1, x)
    THEN [err |-> "RuntimeError", val |-> <<>>]
    ELSE [err |-> "none",
          val |-> Linear(self.linear2,
                         Dropout(Relu(Linear(self.linear1, x)), self.dropout, seed))]

PositionWiseFeedForward_forward(x, seed) ==
    /\ Idle
    /\ ff.cls = "PositionWiseFeedForward"
    /\ seed \in KeepSeeds(ff.dropout)
    /\ \E r \in {PositionWiseFeedForward_call(ff, x, seed)} :
           call' = Call("PositionWiseFeedForward.forward", [x |-> x], r.err, r.val, <<>>)
    /\ UNCHANGED <<emb, pos, ln, ff, mha, rc, layers, enc>>

-----------------------------------------------------------------------------
(* MultiHeadAttentionBlock                                                 *)

\* the value an attribute that was never assigned reads as
Absent == <<>>

\* a constructor without the divisibility check: d_k is the floor of d_model / h
MultiHeadAttentionBlock_unchecked(d_model, h, dropout, seed) ==
    IF h = 0 THEN [err |-> "ZeroDivisionError", self |-> None]
    ELSE [err |-> "none",
          self |-> [cls |-> "MultiHeadAttentionBlock", d_model |-> d_model, h |-> h,
                    d_k |-> d_model \div h,
                    wq |-> Linear_new(seed, d_model, d_model, FALSE),
                    wk |-> Linear_new(seed + 1, d_model, d_model, FALSE),
                    wv |-> Linear_new(seed + 2, d_model, d_model, FALSE),
                    wo |-> Linear_new(seed + 3, d_model, d_model, FALSE),
                    dropout |-> dropout,
                    attention_scores |-> Absent]]

\* d_model % h and d_model // h raise ZeroDivisionError for h = 0
\* MultiHeadAttentionBlock.__init__: the instance, or the exception raised
MultiHeadAttentionBlock_new(d_model, h, dropout, seed) ==
    IF h = 0 THEN [err |-> "ZeroDivisionError", self |-> None]
    ELSE IF d_model % h # 0 THEN [err |-> "AssertionError", self |-> None]
    ELSE [err |-> "none",
          self |-> [cls |-> "MultiHeadAttentionBlock", d_model |-> d_model, h |-> h,
                    d_k |-> d_model \div h,
                    wq |-> Linear_new(seed, d_model, d_model, FALSE),
                    wk |-> Linear_new(seed + 1, d_model, d_model, FALSE),
                    wv |-> Linear_new(seed + 2, d_model, d_model, FALSE),
                    wo |-> Linear_new(seed + 3, d_model, d_model, FALSE),
                    dropout |-> dropout,
                    attention_scores |-> Absent]]

MultiHeadAttentionBlock_init(d_model, h, dropout, seed) ==
    /\ Idle
    /\ \E r \in {MultiHeadAttentionBlock_new(d_model, h, dropout, seed)} :
        /\ mha' = IF r.err = "none" THEN r.self ELSE mha
        /\ call' = Call("MultiHeadAttentionBlock.__init__",
                        [d_model |-> d_model, h |-> h, dropout |-> dropout],
                        r.err, <<>>, <<>>)
        /\ UNCHANGED <<emb, pos, ln, ff, rc, layers, enc>>

\* the arguments attention's mask and dropout parameters are given
NoneArg == [kind |-> "None"]

TensorArg(t) == [kind |-> "Tensor", val |-> t]

\* an nn.Dropout module of probability p (percent)
DropoutModule(p) == [kind |-> "Dropout", p |-> p]

\* the literal -1e9 written at masked positions
FillValue == -1000000000

\* a score: <<units, thousandths>>, thousandths in 0..Scale-1
Score(t) == <<t \div Scale, t % Scale>>

ScoreLess(a, b) == a[1] < b[1] \/ (a[1] = b[1] /\ a[2] < b[2])

\* torch.matmul(query, key.transpose(-2, -1)) / math.sqrt(d_k):
\* (batch, h, seq_len, d_k) x (batch, h, d_k, seq_len) -> (batch, h, seq_len, seq_len)
ScaledScores(query, key) ==
    LET d_k == Len(query[1][1][1])
    IN  Tensor(4, [b \in 1..Len(query) |-> [hd \in 1..Len(query[b]) |->
          [i \in 1..Len(query[b][hd]) |-> [j \in 1..Len(key[b][hd]) |->
              Score(MulDiv(Dot(query[b][hd][i], key[b][hd][j]), Scale, SqrtInt(d_k)))]]]])

\* the opposite test, mask == 1
EqOne(mask) ==
    IF mask.kind = "Tensor"
    THEN TensorArg([b \in 1..Len(mask.val) |-> [hd \in 1..Len(mask.val[b]) |->
            [i \in 1..Len(mask.val[b][hd]) |-> [j \in 1..Len(mask.val[b][hd][i]) |->
                mask.val[b][hd][i][j] = 1]]]])
    ELSE [kind |-> "bool", val |-> FALSE]

\* mask == 0: elementwise on a tensor; any other object compares unequal to 0,
\* which is the plain boolean False
EqZero(mask) ==
    IF mask.kind = "Tensor"
    THEN TensorArg([b \in 1..Len(mask.val) |-> [hd \in 1..Len(mask.val[b]) |->
            [i \in 1..Len(mask.val[b][hd]) |-> [j \in 1..Len(mask.val[b][hd][i]) |->
                mask.val[b][hd][i][j] = 0]]]])
    ELSE [kind |-> "bool", val |-> FALSE]

\* index i of an axis of size n broadcast against a larger one
Bc(n, i) == IF n = 1 THEN 1 ELSE i

\* attention_scores.masked_fill(where, -1e9): the scores and where broadcast
\* together, axis by axis
MaskedFill(scores, where) ==
    Tensor(4, [b \in 1..BroadcastSize(Len(scores), Len(where)) |->
      [hd \in 1..BroadcastSize(Len(scores[1]), Len(where[1])) |->
        [i \in 1..BroadcastSize(Len(scores[1][1]), Len(where[1][1])) |->
          [j \in 1..BroadcastSize(Len(scores[1][1][1]), Len(where[1][1][1])) |->
            IF where[Bc(Len(where), b)][Bc(Len(where[1]), hd)][Bc(Len(where[1][1]), i)]
                    [Bc(Len(where[1][1][1]), j)]
            THEN <<FillValue, 0>>
            ELSE scores[Bc(Len(scores), b)][Bc(Len(scores[1]), hd)]
                       [Bc(Len(scores[1][1]), i)][Bc(Len(scores[1][1][1]), j)]]]]])

RECURSIVE MaxScore(_)
MaxScore(row) ==
    IF Len(row) = 1 THEN row[1]
    ELSE LET m == MaxScore(Tail(row))
         IN  IF ScoreLess(row[1], m) THEN m ELSE row[1]

\* e^(s - m) in millionths for scores s <= m; zero once the difference
\* reaches the float underflow
ExpDiff(s, m) ==
    IF m[1] - s[1] > Len(ExpTable) THEN 0
    ELSE ExpNeg((m[1] - s[1]) * Scale + (m[2] - s[2]))

\* row.softmax(dim=-1) of one row of scores, as fixed-point probabilities
SoftmaxRow(row) ==
    LET m == MaxScore(row)
        w == Tensor(1, [j \in 1..Len(row) |-> ExpDiff(row[j], m)])
        total == SumSeq(w)
    IN  [j \in 1..Len(row) |-> RoundDiv(w[j] * Scale, total)]

Softmax(scores) ==
    Tensor(4, [b \in 1..Len(scores) |-> [hd \in 1..Len(scores[b]) |->
        [i \in 1..Len(scores[b][hd]) |-> SoftmaxRow(scores[b][hd][i])]]])

\* dropout(attention_scores) on the 4-D probabilities
Dropout4(x, p, seed) == Tensor(1, [b \in 1..Len(x) |-> Dropout(x[b], p, seed)])

\* torch.matmul(attention_scores, value):
\* (batch, h, seq_len, seq_len) x (batch, h, seq_len, d_k)
Weighted(probs, value) ==
    Tensor(4, [b \in 1..Len(probs) |-> [hd \in 1..Len(probs[b]) |->
      [i \in 1..Len(probs[b][hd]) |-> [c \in 1..Len(value[b][hd][1]) |->
          SumSeq([j \in 1..Len(probs[b][hd][i]) |->
                    Mul(probs[b][hd][i][j], value[b][hd][j][c])])]]]])

\* whether the mask's shape and the scores' (batch, h, seq_len, seq_len)
\* broadcast together
MaskFits(where, scores) ==
    /\ Compatible(Len(where), Len(scores))
    /\ Compatible(Len(where[1]), Len(scores[1]))
    /\ Compatible(Len(where[1][1]), Len(scores[1][1]))
    /\ Compatible(Len(where[1][1][1]), Len(scores[1][1][1]))

\* what attention and forward hand back: an exception raised ...
Raised(err) == [err |-> err, out |-> <<>>, attention_scores |-> <<>>]

\* ... or return (attention_scores @ value), attention_scores
Returned(attention_scores, value) ==
    [err |-> "none", out |-> Weighted(attention_scores, value),
     attention_scores |-> attention_scores]

\* if mask is not None: attention_scores.masked_fill_(mask == 0, -1e9)
ApplyMask(scores, mask, where) ==
    IF mask.kind # "None" THEN MaskedFill(scores, where.val) ELSE scores

\* if dropout is not None: attention_scores = dropout(attention_scores)
ApplyDropout(probs, dropout, seed) ==
    IF dropout.kind # "None" THEN Dropout4(probs, dropout.p, seed) ELSE probs

\* attention from the scaled scores on: mask, softmax, dropout, weighted sum
Attend(scores, value, mask, where, dropout, seed) ==
    IF mask.kind # "None" /\ where.kind # "Tensor" THEN Raised("TypeError")
    ELSE IF mask.kind # "None" /\ ~MaskFits(where.val, scores) THEN Raised("RuntimeError")
    ELSE Returned(ApplyDropout(Softmax(ApplyMask(scores, mask, where)), dropout, seed),
                  value)

\* MultiHeadAttentionBlock.attention(query, key, value, mask, dropout):
\* the pair (output, attention_scores), or the exception raised
attention(query, key, value, mask, dropout, seed) ==
    Attend(ScaledScores(query, key), value, mask, EqZero(mask), dropout, seed)

\* x.view(batch, seq_len, h, d_k).transpose(1, 2): head hd holds the columns
\* (hd - 1) * d_k + 1 .. hd * d_k of every position
SplitHeads(x, h, d_k) ==
    Tensor(4, [b \in 1..Len(x) |-> [hd \in 1..h |-> [s \in 1..Len(x[b]) |->
        [c \in 1..d_k |-> x[b][s][(hd - 1) * d_k + c]]]]])

\* x.transpose(1, 2).contiguous().view(batch, -1, h * d_k)
MergeHeads(x, h, d_k) ==
    Tensor(3, [b \in 1..Len(x) |-> [s \in 1..Len(x[b][1]) |-> [c \in 1..h * d_k |->
        x[b][((c - 1) \div d_k) + 1][s][((c - 1) % d_k) + 1]]]])

\* the arguments MultiHeadAttentionBlock.forward calls attention with (the
\* fourth positional parameter of attention is mask; dropout keeps its default)
ForwardMaskArg(self, mask) == DropoutModule(self.dropout)

ForwardDropoutArg(self, mask) == NoneArg

\* the end of forward: heads merged and projected by w_o, scores stored
Project(self, r) ==
    IF r.err # "none" THEN r
    ELSE [err |-> "none",
          out |-> Linear(self.wo, MergeHeads(r.out, self.h, self.d_k)),
          attention_scores |-> r.attention_scores]

\* MultiHeadAttentionBlock.forward(q, k, v, mask): the output and the
\* probabilities to store, or the exception raised
MultiHeadAttentionBlock_call(self, q, k, v, mask, seed) ==
    IF ~(LinearAccepts(self.wq, q) /\ LinearAccepts(self.wk, k) /\ LinearAccepts(self.wv, v))
       \/ Len(q) # Len(k) \/ Len(k) # Len(v) \/ Len(k[1]) # Len(v[1])
    THEN Raised("RuntimeError")
    ELSE Project(self,
                 attention(SplitHeads(Linear(self.wq, q), self.h, self.d_k),
                           SplitHeads(Linear(self.wk, k), self.h, self.d_k),
                           SplitHeads(Linear(self.wv, v), self.h, self.d_k),
                           ForwardMaskArg(self, mask), ForwardDropoutArg(self, mask), seed))

MultiHeadAttentionBlock_forward(q, k, v, mask, seed) ==
    /\ Idle
    /\ mha.cls = "MultiHeadAttentionBlock"
    /\ \E r \in {MultiHeadAttentionBlock_call(mha, q, k, v, mask, seed)} :
           /\ mha' = IF r.err = "none"
                     THEN [mha EXCEPT !.attention_scores = r.attention_scores]
                     ELSE mha
           /\ call' = Call("MultiHeadAttentionBlock.forward",
                           [q |-> q, k |-> k, v |-> v, mask |-> mask],
                           r.err, r.out, <<>>)
    /\ UNCHANGED <<emb, pos, ln, ff, rc, layers, enc>>

\* a direct call of the static method MultiHeadAttentionBlock.attention
attention_call(query, key, value, mask, dropout, seed) ==
    /\ Idle
    /\ \E r \in {attention(query, key, value, mask, dropout, seed)} :
           call' = Call("MultiHeadAttentionBlock.attention",
                        [query |-> query, key |-> key, value |-> value,
                         mask |-> mask, dropout |-> dropout, seed |-> seed],
                        r.err, <<r.out, r.attention_scores>>, <<>>)
    /\ UNCHANGED <<emb, pos, ln, ff, mha, rc, layers, enc>>

\* the key masks of length s: shape (1, 1, 1, s), one 0/1 flag per key position
KeyMasks(s) == {<<<<<<m>>>>>> : m \in [1..s -> {0, 1}]}

\* the square masks of shape (1, 1, s, s): all ones, and the causal one
SquareMasks(s) ==
    {<<<<[i \in 1..s |-> [j \in 1..s |-> 1]]>>>>,
     <<<<[i \in 1..s |-> [j \in 1..s |-> IF j <= i THEN 1 ELSE 0]]>>>>}

\* the head splits of the sample inputs: every (batch, h, seq_len, d_k) of the
\* largest batch with h * d_k within the width bound
HeadShapes ==
    {<<b, h, s, d_k>> \in {MaxBatch} \X (1..MaxDModel) \X (1..MaxSeqLen) \X (1..MaxDModel) :
        h * d_k <= MaxDModel}

\* the sample numbered seed as (batch, h, seq_len, d_k)
Sample4(seed, shape) ==
    SplitHeads(Sample(seed, shape[1], shape[3], shape[2] * shape[4]), shape[2], shape[4])

-----------------------------------------------------------------------------
(* ResidualConnection                                                      *)

\* ResidualConnection.__init__(self, dropout), called with the positional
\* arguments args: any other number of them is a TypeError
ResidualConnection_new(args) ==
    IF Len(args) # 1 THEN [err |-> "TypeError", self |-> None]
    ELSE [err |-> "none",
          self |-> [cls |-> "ResidualConnection", dropout |-> args[1],
                    norm |-> LayerNormalization_new(Eps)]]

ResidualConnection_init(dropout) ==
    /\ Idle
    /\ \E r \in {ResidualConnection_new(<<dropout>>)} :
        /\ rc' = IF r.err = "none" THEN r.self ELSE rc
        /\ call' = Call("ResidualConnection.__init__", [dropout |-> dropout],
                        r.err, <<>>, <<>>)
        /\ UNCHANGED <<emb, pos, ln, ff, mha, layers, enc>>

\* the sublayers passed to a ResidualConnection: the feed-forward block itself,
\* and EncoderBlock.forward's lambda x: self.selfattn_block(x, x, x, src_mask)
FeedForwardSublayer(block) == [kind |-> "feedforward_block", self |-> block]

SelfAttnSublayer(block, src_mask) ==
    [kind |-> "selfattn_block", self |-> block, mask |-> src_mask]

\* the tensor a block's forward returns, or the exception it raised
Output(r) == [err |-> r.err, val |-> r.out]

\* sublayer(x): the value returned, or the exception raised
Sublayer(sublayer, x, seed) ==
    IF sublayer.kind = "feedforward_block"
    THEN PositionWiseFeedForward_call(sublayer.self, x, seed)
    ELSE Output(MultiHeadAttentionBlock_call(sublayer.self, x, x, x, sublayer.mask, seed))

\* one step of a forward call: what ran, on what
Step(op, arg) == [op |-> op, arg |-> arg]

\* x + dropped, with the steps that led to it
Residual(x, normed, out, dropped) ==
    [err |-> "none", val |-> BroadcastAdd(x, dropped),
     trace |-> <<Step("norm", x), Step("sublayer", normed),
                 Step("dropout", out), Step("add", dropped)>>]

\* self.dropout(...) of what the sublayer returned, unless it raised
Dropped(self, x, normed, sub, seed) ==
    IF sub.err # "none"
    THEN [err |-> sub.err, val |-> <<>>,
          trace |-> <<Step("norm", x), Step("sublayer", normed)>>]
    ELSE Residual(x, normed, sub.val, Dropout(sub.val, self.dropout, seed))

\* sublayer(...) of the normalized input
Wrapped(self, x, normed, sublayer, seeds) ==
    Dropped(self, x, normed, Sublayer(sublayer, normed, seeds[2]), seeds[1])

\* the post-norm ordering of the paper: norm(x + dropout(sublayer(x)))
PostNorm(self, x, sublayer, seeds) ==
    IF Sublayer(sublayer, x, seeds[2]).err # "none"
    THEN [err |-> Sublayer(sublayer, x, seeds[2]).err, val |-> <<>>,
          trace |-> <<Step("sublayer", x)>>]
    ELSE [err |-> "none",
          val |-> LayerNormalization_call(self.norm,
                     BroadcastAdd(x, Dropout(Sublayer(sublayer, x, seeds[2]).val,
                                             self.dropout, seeds[1]))),
          trace |-> <<Step("sublayer", x),
                      Step("dropout", Sublayer(sublayer, x, seeds[2]).val),
                      Step("add", Dropout(Sublayer(sublayer, x, seeds[2]).val,
                                          self.dropout, seeds[1])),
                      Step("norm", BroadcastAdd(x, Dropout(Sublayer(sublayer, x, seeds[2]).val,
                                                           self.dropout, seeds[1])))>>]

\* ResidualConnection.forward: x + self.dropout(sublayer(self.norm(x)));
\* seeds are the keep-patterns of this dropout and of the sublayer's
ResidualConnection_call(self, x, sublayer, seeds) ==
    Wrapped(self, x, LayerNormalization_call(self.norm, x), sublayer, seeds)

ResidualConnection_forward(x, sublayer, seeds) ==
    /\ Idle
    /\ rc.cls = "ResidualConnection"
    /\ sublayer.self.cls # "None"
    /\ seeds[1] \in KeepSeeds(rc.dropout)
    /\ seeds[2] \in KeepSeeds(sublayer.self.dropout)
    /\ \E r \in {ResidualConnection_call(rc, x, sublayer, seeds)} :
           call' = Call("ResidualConnection.forward",
                        [x |-> x, sublayer |-> sublayer, seeds |-> seeds],
                        r.err, r.val, r.trace)
    /\ UNCHANGED <<emb, pos, ln, ff, mha, rc, layers, enc>>

-----------------------------------------------------------------------------
(* EncoderBlock and Encoder                                                *)

\* EncoderBlock.__init__: the two wrappers are built by
\* ResidualConnection(features, dropout)
EncoderBlock_new(features, selfattn_block, feedforward_block, dropout) ==
    LET res_con == [i \in 1..2 |-> ResidualConnection_new(<<features, dropout>>)]
    IN  IF res_con[1].err # "none" THEN [err |-> res_con[1].err, self |-> None]
        ELSE [err |-> "none",
              self |-> [cls |-> "EncoderBlock", selfattn_block |-> selfattn_block,
                        feedforward_block |-> feedforward_block,
                        res_con |-> [i \in 1..2 |-> res_con[i].self]]]

\* the caller builds a block from the attention and feed-forward blocks it has
\* and appends it to the list it will hand to Encoder
EncoderBlock_init(features, dropout) ==
    /\ Idle
    /\ mha.cls = "MultiHeadAttentionBlock"
    /\ ff.cls = "PositionWiseFeedForward"
    /\ \E r \in {EncoderBlock_new(features, mha, ff, dropout)} :
           /\ layers' = IF r.err = "none" THEN Append(layers, r.self) ELSE layers
           /\ call' = Call("EncoderBlock.__init__",
                           [features |-> features, dropout |-> dropout],
                           r.err, <<>>, <<>>)
    /\ UNCHANGED <<emb, pos, ln, ff, mha, rc, enc>>

\* the block's result: the second wrapper's, after the steps of both
Both(first, second) ==
    [err |-> second.err, val |-> second.val, trace |-> first.trace \o second.trace]

\* x = self.res_con[1](x, self.feedforward_block), unless the first raised
FeedForwardWrapper(self, first, seeds) ==
    IF first.err # "none" THEN first
    ELSE Both(first, ResidualConnection_call(self.res_con[2], first.val,
                        FeedForwardSublayer(self.feedforward_block), seeds))

\* EncoderBlock.forward: the self-attention wrapper, then the feed-forward one
EncoderBlock_call(self, x, src_mask, seeds) ==
    FeedForwardWrapper(self,
        ResidualConnection_call(self.res_con[1], x,
            SelfAttnSublayer(self.selfattn_block, src_mask), seeds),
        seeds)

\* Encoder.__init__
Encoder_new(blocks) ==
    [cls |-> "Encoder", layers |-> blocks, norm |-> LayerNormalization_new(Eps)]

Encoder_init ==
    /\ Idle
    /\ enc' = Encoder_new(layers)
    /\ call' = Call("Encoder.__init__", [layers |-> layers], "none", <<>>, <<>>)
    /\ UNCHANGED <<emb, pos, ln, ff, mha, rc, layers>>

\* a layer's step followed by those of the layers after it
Following(step, rest) ==
    [err |-> rest.err, val |-> rest.val, trace |-> <<step>> \o rest.trace]

RECURSIVE EncoderLayers(_, _, _, _, _)
\* the layers after layer i, on what layer i returned (unless it raised)
LayersAfter(blocks, i, x, mask, seeds, r) ==
    IF r.err # "none"
    THEN [err |-> r.err, val |-> <<>>, trace |-> <<Step("layer", <<i, x, mask>>)>>]
    ELSE Following(Step("layer", <<i, x, mask>>),
                   EncoderLayers(blocks, i + 1, r.val, mask, seeds))

\* for layer in self.layers: x = layer(x, mask), from layer i on
EncoderLayers(blocks, i, x, mask, seeds) ==
    IF i > Len(blocks) THEN [err |-> "none", val |-> x, trace |-> <<>>]
    ELSE LayersAfter(blocks, i, x, mask, seeds,
                     EncoderBlock_call(blocks[i], x, mask, seeds))

\* return self.norm(x), after the layers
FinalNorm(self, r) ==
    IF r.err # "none" THEN r
    ELSE [err |-> "none", val |-> LayerNormalization_call(self.norm, r.val),
          trace |-> r.trace \o <<Step("norm", r.val)>>]

\* Encoder.forward: every layer in order, then self.norm
Encoder_call(self, x, mask, seeds) ==
    FinalNorm(self, EncoderLayers(self.layers, 1, x, mask, seeds))

Encoder_forward(x, mask, seeds) ==
    /\ Idle
    /\ enc.cls = "Encoder"
    /\ \E r \in {Encoder_call(enc, x, mask, seeds)} :
           call' = Call("Encoder.forward", [x |-> x, mask |-> mask],
                        r.err, r.val, r.trace)
    /\ UNCHANGED <<emb, pos, ln, ff, mha, rc, layers, enc>>

-----------------------------------------------------------------------------
(* Specifications.                                                         *)

Init ==
    /\ emb = None /\ pos = None /\ ln = None /\ ff = None /\ mha = None
    /\ rc = None /\ layers = <<>> /\ enc = None
    /\ call = NoCall

NextPE ==
    \/ \E d_model \in 1..MaxDModel, seq_len \in 1..MaxSeqLen, dropout \in Rates :
          PositionalEncoding_init(d_model, seq_len, dropout)
    \/ \E x \in Inputs, seed \in 0..MaxSeed :
          PositionalEncoding_forward(x, seed)
    \/ Discard

SpecPE == Init /\ [][NextPE]_vars

NextLN ==
    \/ LayerNormalization_init
    \/ \E x \in Inputs \cup RowInputs \cup {WorkedExample} :
          LayerNormalization_forward(x)
    \/ Discard

SpecLN == Init /\ [][NextLN]_vars

\* the initial weights the model constructs modules with
WeightSeeds == {0, 1}

\* the key mask for seq_len s that hides nothing
OnesMask(s) == TensorArg(<<<<<<[j \in 1..s |-> 1]>>>>>>)

\* the masks a caller passes: none, or a key mask for seq_len s
Masks(s) == {NoneArg} \cup {TensorArg(m) : m \in KeyMasks(s)}

NextAttention ==
    \/ \E seed \in 0..MaxSeed, shape \in HeadShapes :
          \E mask \in Masks(shape[3]) \cup {TensorArg(m) : m \in SquareMasks(shape[3])} :
          attention_call(Sample4(seed, shape), Sample4(seed + 1, shape),
                         Sample4(seed + 2, shape), mask, NoneArg, 0)
    \/ \E seed \in 0..MaxSeed, shape \in HeadShapes, keep \in {1, MaxSeed} :
          \E mask \in {NoneArg, OnesMask(shape[3])} :
          attention_call(Sample4(seed, shape), Sample4(seed + 1, shape),
                         Sample4(seed + 2, shape), mask, DropoutModule(50), keep)
    \/ Discard

SpecAttention == Init /\ [][NextAttention]_vars

NextMHA ==
    \/ \E d_model \in 1..MaxDModel, h \in 0..MaxHeads, dropout \in Rates,
          seed \in WeightSeeds :
          MultiHeadAttentionBlock_init(d_model, h, dropout, seed)
    \/ \E seed \in 0..MaxSeed, b \in 1..MaxBatch, s \in 1..MaxSeqLen, d \in 1..MaxDModel,
          vseed \in 0..MaxSeed :
          \E mask \in Masks(s) :
             MultiHeadAttentionBlock_forward(Sample(seed, b, s, d), Sample(seed + 1, b, s, d),
                                             Sample(vseed, b, s, d), mask, 0)
    \/ Discard

SpecMHA == Init /\ [][NextMHA]_vars

NextRC ==
    \/ \E d_model \in 1..MaxDModel : PositionWiseFeedForward_init(d_model, MaxDModel, 0, 0)
    \/ \E dropout \in Rates : ResidualConnection_init(dropout)
    \/ \E x \in Inputs, seed \in 0..MaxSeed :
          ResidualConnection_forward(x, FeedForwardSublayer(ff), <<seed, MaxSeed>>)
    \/ Discard

SpecRC == Init /\ [][NextRC]_vars

\* the few inputs of the specification that holds every module at once
FewInputs == {Sample(1, 1, MaxSeqLen, d) : d \in {2, MaxDModel}}

FewIds == {SampleIds(1, 1, MaxSeqLen)}

FewMasks == {NoneArg, TensorArg(<<<<<<[j \in 1..MaxSeqLen |-> IF j = 1 THEN 0 ELSE 1]>>>>>>)}

NextAll ==
    \/ InputEmbedding_init(2, MaxVal + 1, 0)
    \/ \E x \in FewIds : InputEmbedding_forward(x)
    \/ PositionalEncoding_init(2, MaxSeqLen, 50)
    \/ \E x \in FewInputs, seed \in {0, MaxSeed} : PositionalEncoding_forward(x, seed)
    \/ LayerNormalization_init
    \/ \E x \in FewInputs : LayerNormalization_forward(x)
    \/ PositionWiseFeedForward_init(2, MaxDModel, 0, 0)
    \/ \E x \in FewInputs : PositionWiseFeedForward_forward(x, MaxSeed)
    \/ \E d_model \in {2, MaxDModel}, h \in 0..MaxHeads :
          MultiHeadAttentionBlock_init(d_model, h, 0, 0)
    \/ \E x \in FewInputs, mask \in FewMasks :
          MultiHeadAttentionBlock_forward(x, x, x, mask, 0)
    \/ ResidualConnection_init(0)
    \/ \E x \in FewInputs :
          ResidualConnection_forward(x, FeedForwardSublayer(ff), <<MaxSeed, MaxSeed>>)
    \/ \E x \in FewInputs, mask \in FewMasks :
          ResidualConnection_forward(x, SelfAttnSublayer(mha, mask), <<MaxSeed, MaxSeed>>)
    \/ \E features \in {2, MaxDModel} : EncoderBlock_init(features, 0)
    \/ Encoder_init
    \/ \E x \in FewInputs, mask \in FewMasks : Encoder_forward(x, mask, <<MaxSeed, MaxSeed>>)
    \/ Discard

Spec == Init /\ [][NextAll]_vars

-----------------------------------------------------------------------------
(* Properties.                                                             *)

\* C7: for every seq_len >= 1 and every even d_model the constructor succeeds
\* and the table has shape (1, seq_len, d_model); row 0 is [0, 1, 0, 1, ...];
\* in every row the even column 2k holds the sine and the odd column 2k + 1 the
\* cosine of one and the same angle position * denominator_harvard[k]
\* (columns are numbered from 1 here, so these are columns 2k - 1 and 2k).
C7_PositionalTable ==
    /\ (call.op = "PositionalEncoding.__init__" /\ call.args.d_model % 2 = 0)
          => /\ call.err = "none"
             /\ pos.d_model = call.args.d_model
             /\ pos.seq_len = call.args.seq_len
    /\ (pos.cls = "PositionalEncoding" /\ pos.d_model % 2 = 0)
          => /\ Shape(pos.pe) = <<1, pos.seq_len, pos.d_model>>
             /\ \A c \in 1..pos.d_model :
                   pos.pe[1][1][c] = IF c % 2 = 1 THEN 0 ELSE Scale
             /\ \A p \in 1..pos.seq_len, k \in 1..(pos.d_model \div 2) :
                   /\ pos.pe[1][p][2 * k - 1]
                         = Sin(Mul((p - 1) * Scale, DenominatorHarvard(pos.d_model)[k]))
                   /\ pos.pe[1][p][2 * k]
                         = Cos(Mul((p - 1) * Scale, DenominatorHarvard(pos.d_model)[k]))

\* a table of width 4 and at least two positions has just been built
C7_TableBuilt ==
    /\ call.op = "PositionalEncoding.__init__"
    /\ call.err = "none"
    /\ pos.d_model = 4
    /\ pos.seq_len >= 2
    /\ pos.pe[1][2][1] # 0

\* C8 (as amended): LayerNormalization.forward normalizes every last-axis row
\* on its own and returns alpha * (x - mean) / (std^2 + eps) + bias with the
\* unbiased std; with alpha = 1 and bias = 0 every output row of two or more
\* elements has mean ~0 and a row of one element is NaN; for the row
\* [1, 2, 3, 4] the mean is 2.5, std about 1.291, the divisor about 1.667 and
\* the normalized row is [-1.5, -0.5, 0.5, 1.5] / 1.667, about
\* [-0.9, -0.3, 0.3, 0.9].
C8_Normalization ==
    call.op = "LayerNormalization.forward" =>
        \A b \in 1..Len(call.args.x) : \A s \in 1..Len(call.args.x[b]) :
            /\ Len(call.ret[b][s]) = Len(call.args.x[b][s])
            /\ call.ret[b][s] = LayerNormalization_call(ln, <<<<call.args.x[b][s]>>>>)[1][1]
            /\ Len(call.args.x[b][s]) = 1 => call.ret[b][s] = <<NaN>>
            /\ Len(call.args.x[b][s]) >= 2 =>
                  /\ \A i \in 1..Len(call.args.x[b][s]) :
                        call.ret[b][s][i]
                           = MulDiv(call.args.x[b][s][i] - Mean(call.args.x[b][s]),
                                    Scale * Scale,
                                    Std(call.args.x[b][s]) * Std(call.args.x[b][s]) + Eps)
                  /\ Abs(SumSeq(call.ret[b][s])) <= (Scale \div 100) * Len(call.ret[b][s])
            /\ call.args.x[b][s] = WorkedExample[1][1] =>
                  /\ Mean(call.args.x[b][s]) = 2500
                  /\ Std(call.args.x[b][s]) = 1291
                  /\ RoundDiv(Std(call.args.x[b][s]) * Std(call.args.x[b][s]) + Eps, Scale)
                        = 1667
                  /\ call.ret[b][s] = <<-900, -300, 300, 900>>

\* the row [1, 2, 3, 4] has just been normalized
C8_WorkedExampleNormalized ==
    /\ call.op = "LayerNormalization.forward"
    /\ call.args.x = WorkedExample
    /\ call.err = "none"

\* C8 as stated: every output row has mean ~0, and the row [1, 2, 3, 4]
\* normalizes to about [-0.9, -0.3, 0.3, 0.9] / 1.667
C8_AsStated ==
    call.op = "LayerNormalization.forward" =>
        \A b \in 1..Len(call.args.x) : \A s \in 1..Len(call.args.x[b]) :
            /\ Abs(SumSeq(call.ret[b][s])) <= (Scale \div 100) * Len(call.ret[b][s])
            /\ call.args.x[b][s] = WorkedExample[1][1] =>
                  \A i \in 1..4 :
                      Abs(call.ret[b][s][i]
                          - MulDiv(<<-900, -300, 300, 900>>[i], Scale, 1667))
                         <= Scale \div 100
\* the call c handed back what r holds: the same exception, or the same
\* output and attention scores
HandedBack(c, r) ==
    /\ c.err = r.err
    /\ c.ret[1] = r.out
    /\ c.ret[2] = r.attention_scores

\* C6: attention with a mask whose entries are all 1 (one row of flags per key,
\* or one per query and key) returns what attention
\* with mask = None returns on the same query, key and value (and the same
\* dropout draw): the same output and the same probability matrix.
C6_AllOnesMaskIsNoMask ==
    (/\ call.op = "MultiHeadAttentionBlock.attention"
     /\ call.args.mask.kind = "Tensor"
     /\ \A i \in 1..Len(call.args.mask.val[1][1]) :
           \A j \in 1..Len(call.args.mask.val[1][1][i]) :
              call.args.mask.val[1][1][i][j] = 1)
       => /\ call.err = "none"
          /\ HandedBack(call, attention(call.args.query, call.args.key, call.args.value,
                                        NoneArg, call.args.dropout, call.args.seed))

\* attention has returned for an all-ones mask over two or more keys whose
\* probabilities are not uniform
C6_AllOnesMaskApplied ==
    /\ call.op = "MultiHeadAttentionBlock.attention"
    /\ call.err = "none"
    /\ call.args.mask.kind = "Tensor"
    /\ Len(call.args.mask.val[1][1][1]) >= 2
    /\ \A j \in 1..Len(call.args.mask.val[1][1][1]) : call.args.mask.val[1][1][1][j] = 1
    /\ call.ret[2][1][1][1][1] # call.ret[2][1][1][1][2]

\* C5: ResidualConnection.forward(x, sublayer) normalizes x first, calls the
\* sublayer exactly once, on the normalized input, applies dropout to what the
\* sublayer returned, and adds the original x last: it returns
\* x + dropout(sublayer(norm(x))).
C5_PreNormResidual ==
    call.op = "ResidualConnection.forward" =>
        /\ Len(call.trace) >= 2
        /\ call.trace[1] = Step("norm", call.args.x)
        /\ call.trace[2]
              = Step("sublayer", LayerNormalization_call(rc.norm, call.args.x))
        /\ Cardinality({i \in 1..Len(call.trace) : call.trace[i].op = "sublayer"}) = 1
        /\ call.err = Sublayer(call.args.sublayer, call.trace[2].arg, call.args.seeds[2]).err
        /\ call.err = "none" =>
              /\ Len(call.trace) = 4
              /\ call.trace[3]
                    = Step("dropout", Sublayer(call.args.sublayer, call.trace[2].arg,
                                               call.args.seeds[2]).val)
              /\ call.trace[4]
                    = Step("add", Dropout(call.trace[3].arg, rc.dropout, call.args.seeds[1]))
              /\ call.ret = BroadcastAdd(call.args.x, call.trace[4].arg)

\* a residual call has returned in which normalization changed the input and
\* dropout changed the sublayer's result
C5_ResidualReturned ==
    /\ call.op = "ResidualConnection.forward"
    /\ call.err = "none"
    /\ call.trace[2].arg # call.args.x
    /\ call.trace[4].arg # call.trace[3].arg
    /\ call.ret # call.args.x

\* the operations that are forward calls, and those that are constructors
ForwardOps ==
    {"InputEmbedding.forward", "PositionalEncoding.forward", "LayerNormalization.forward",
     "PositionWiseFeedForward.forward", "MultiHeadAttentionBlock.forward",
     "MultiHeadAttentionBlock.attention", "ResidualConnection.forward", "Encoder.forward"}

ConstructorOps ==
    {"InputEmbedding.__init__", "PositionalEncoding.__init__", "LayerNormalization.__init__",
     "PositionWiseFeedForward.__init__", "MultiHeadAttentionBlock.__init__",
     "ResidualConnection.__init__", "EncoderBlock.__init__", "Encoder.__init__"}

\* C1: MultiHeadAttentionBlock(d_model, h, dropout) with h >= 1 raises the
\* assertion error and produces no instance whenever d_model % h is not 0, and
\* otherwise succeeds with d_k = d_model / h; no other constructor raises an
\* assertion error.
C1_DivisibilityCheck ==
    [][/\ (call'.op = "MultiHeadAttentionBlock.__init__" /\ call'.args.h >= 1)
          => IF call'.args.d_model % call'.args.h # 0
             THEN /\ call'.err = "AssertionError"
                  /\ mha' = mha
             ELSE /\ call'.err = "none"
                  /\ mha'.cls = "MultiHeadAttentionBlock"
                  /\ mha'.d_model = call'.args.d_model
                  /\ mha'.h = call'.args.h
                  /\ mha'.d_k * call'.args.h = call'.args.d_model
       /\ (call'.op \in ConstructorOps /\ call'.err = "AssertionError")
          => call'.op = "MultiHeadAttentionBlock.__init__"]_vars

\* a construction has just been refused for a width the head count does not
\* divide, after an earlier one succeeded with more than one head
C1_ConstructionRefused ==
    /\ call.op = "MultiHeadAttentionBlock.__init__"
    /\ call.err = "AssertionError"
    /\ call.args.d_model % call.args.h # 0
    /\ mha.cls = "MultiHeadAttentionBlock"
    /\ mha.h >= 2
    /\ mha.d_k * mha.h = mha.d_model

\* C10: a forward call on any component leaves the positional table and every
\* parameter (embedding table, w_q/w_k/w_v/w_o, alpha and bias, feed-forward
\* weights) as it was; the only instance state a forward call may write is the
\* attention_scores attribute of the MultiHeadAttentionBlock.
C10_ForwardWritesOnlyScores ==
    [][call'.op \in ForwardOps
          => /\ emb' = emb /\ pos' = pos /\ ln' = ln /\ ff' = ff
             /\ rc' = rc /\ layers' = layers /\ enc' = enc
             /\ IF mha.cls = "None" THEN mha' = mha
                ELSE [mha' EXCEPT !.attention_scores = Absent]
                        = [mha EXCEPT !.attention_scores = Absent]]_vars

\* PositionalEncoding.forward has returned the input plus the table's rows,
\* with the embedding and the attention block constructed as well
C10_ForwardReturned ==
    /\ call.op = "PositionalEncoding.forward"
    /\ call.err = "none"
    /\ call.ret # call.args.x
    /\ pos.cls = "PositionalEncoding"
    /\ emb.cls = "InputEmbedding"
    /\ mha.cls = "MultiHeadAttentionBlock"

\* a forward call whose q, k and v the block's projections accept
WellShaped ==
    /\ call.op = "MultiHeadAttentionBlock.forward"
    /\ LinearAccepts(mha.wq, call.args.q)
    /\ LinearAccepts(mha.wk, call.args.k)
    /\ LinearAccepts(mha.wv, call.args.v)
    /\ Len(call.args.q) = Len(call.args.k) /\ Len(call.args.k) = Len(call.args.v)
    /\ Len(call.args.q[1]) = Len(call.args.k[1])
    /\ Len(call.args.k[1]) = Len(call.args.v[1])

\* C2: a forward call whose mask is 0 at key position j for all queries (and 1
\* at some other position) returns, gives position j probability ~0 for every
\* query and head, and returns the same output when v[j] is replaced by zeros:
\* the mask passed to forward is the one attention applies.
C2_MaskIsolatesKey ==
    (/\ WellShaped
     /\ call.args.mask.kind = "Tensor"
     /\ Len(call.args.mask.val[1][1][1]) = Len(call.args.k[1])
     /\ \E j \in 1..Len(call.args.k[1]) : call.args.mask.val[1][1][1][j] = 1)
       => \A j \in {t \in 1..Len(call.args.k[1]) : call.args.mask.val[1][1][1][t] = 0} :
             /\ call.err = "none"
             /\ \A b \in 1..Len(mha.attention_scores) :
                   \A hd \in 1..Len(mha.attention_scores[b]) :
                      \A i \in 1..Len(mha.attention_scores[b][hd]) :
                         mha.attention_scores[b][hd][i][j] <= 1
             /\ call.ret
                   = MultiHeadAttentionBlock_call(mha, call.args.q, call.args.k,
                        [b \in 1..Len(call.args.v) |->
                           [s \in 1..Len(call.args.v[b]) |->
                              IF s = j THEN [c \in 1..Len(call.args.v[b][s]) |-> 0]
                              ELSE call.args.v[b][s]]],
                        call.args.mask, 0).out

\* C9: after a forward call the attention_scores attribute holds the
\* probabilities that call computed, of shape (batch, h, seq_len, seq_len);
\* a newly constructed block has no such attribute.
C9_ScoresOfLastCall ==
    /\ (call.op = "MultiHeadAttentionBlock.__init__" /\ call.err = "none")
          => mha.attention_scores = Absent
    /\ WellShaped
          => /\ call.err = "none"
             /\ mha.attention_scores # Absent
             /\ Len(mha.attention_scores) = Len(call.args.q)
             /\ Len(mha.attention_scores[1]) = mha.h
             /\ Len(mha.attention_scores[1][1]) = Len(call.args.q[1])
             /\ Len(mha.attention_scores[1][1][1]) = Len(call.args.q[1])
             /\ mha.attention_scores
                   = attention(SplitHeads(Linear(mha.wq, call.args.q), mha.h, mha.d_k),
                               SplitHeads(Linear(mha.wk, call.args.k), mha.h, mha.d_k),
                               SplitHeads(Linear(mha.wv, call.args.v), mha.h, mha.d_k),
                               call.args.mask, DropoutModule(mha.dropout),
                               0).attention_scores

\* C3: every EncoderBlock(features, selfattn_block, feedforward_block, dropout)
\* is constructed, with its two ResidualConnection wrappers, and joins the
\* list; Encoder.forward(x, mask) returns a tensor of the shape of x.
C3_BlocksStackAndKeepShape ==
    /\ call.op = "EncoderBlock.__init__"
          => /\ call.err = "none"
             /\ Len(layers) >= 1
             /\ layers[Len(layers)].cls = "EncoderBlock"
             /\ Len(layers[Len(layers)].res_con) = 2
    /\ call.op = "Encoder.forward"
          => /\ call.err = "none"
             /\ Shape(call.ret) = Shape(call.args.x)

\* C4: Encoder.forward applies the blocks of its list in order, once each, on
\* the previous block's output and the same mask, then the normalization once
\* (for an empty list, the normalization of x alone); inside a block the
\* self-attention wrapper runs, then the feed-forward wrapper.
C4_LayersInOrderThenNorm ==
    /\ call.op = "Encoder.forward"
          => /\ call.err = "none"
             /\ Len(call.trace) = Len(enc.layers) + 1
             /\ \A i \in 1..Len(enc.layers) :
                   /\ call.trace[i].op = "layer"
                   /\ call.trace[i].arg[1] = i
                   /\ call.trace[i].arg[3] = call.args.mask
             /\ call.trace[Len(call.trace)].op = "norm"
             /\ call.ret = LayerNormalization_call(enc.norm,
                                                   call.trace[Len(call.trace)].arg)
             /\ Len(enc.layers) = 0 => call.trace[1].arg = call.args.x
    /\ call.op = "EncoderBlock.__init__"
          => /\ Len(layers) >= 1
             /\ \A x \in {y \in FewInputs : LinearAccepts(mha.wq, y)} :
                   /\ EncoderBlock_call(layers[Len(layers)], x, NoneArg,
                                        <<MaxSeed, MaxSeed>>).err = "none"
                   /\ [i \in 1..8 |->
                         EncoderBlock_call(layers[Len(layers)], x, NoneArg,
                                           <<MaxSeed, MaxSeed>>).trace[i].op]
                         = <<"norm", "sublayer", "dropout", "add",
                             "norm", "sublayer", "dropout", "add">>
    /\ (/\ call.op = "ResidualConnection.forward"
        /\ call.args.sublayer.kind = "selfattn_block"
        /\ LinearAccepts(call.args.sublayer.self.wq, call.args.x))
          => call.err = "none"

=============================================================================
